---- MODULE Spec2Model ----
(***************************************************************************)
(* Datagate -> NGP forwarder (src/main.py).                                *)
(*                                                                         *)
(* One asyncio event loop runs receive_datagate (an "async def" with no    *)
(* await after the body is read, so ingest requests never interleave with  *)
(* each other); the synchronous handlers (add_mapping) run on threadpool   *)
(* workers and interleave with the event loop and with each other.         *)
(*                                                                         *)
(* Strings that the code strips or case-folds are sequences of one         *)
(* character strings.  An Optional value is a sequence of length <= 1.     *)
(* A float is a record [k, v]: k = "num" with an integer v, or k = "nan".  *)
(* The records of a batch are drawn when the loop reaches them: the        *)
(* handling of a record depends on that record and on the stores only.     *)
(* The daily JSONL log and the per-asset snapshot are write-only for every *)
(* handler modelled here; only the outcome of the snapshot write is kept   *)
(* (it decides raw_snapshot_path).                                         *)
(***************************************************************************)
EXTENDS Integers, Sequences, FiniteSets, TLC

\* ------------------------------------------------------------------ bounds
MaxBatch  == 2      \* AssetEvent records in one ingest body
MaxIngest == 1      \* ingest requests in a behaviour
MaxAdds   == 2      \* POST /mappings requests in a behaviour
MaxNow    == 4      \* last value of the wall clock
MaxFaults == 1      \* failing disk operations in a behaviour
MaxQueries == 2     \* weather queries in a behaviour
MaxHeading == 370   \* largest |heading| of the heading records
MaxSpeed == 125     \* largest speed of the speed records
RaceBatch == 1      \* records in an ingest body while adds run concurrently

\* --------------------------------------------------------------- optionals
None    == <<>>
Some(v) == <<v>>
Val(o)  == o[1]

\* ----------------------------------------------------------------- strings
RECURSIVE LStrip(_)
LStrip(s) == IF s # <<>> /\ Head(s) = " " THEN LStrip(Tail(s)) ELSE s

RECURSIVE RStrip(_)
RStrip(s) == IF s # <<>> /\ s[Len(s)] = " " THEN RStrip(SubSeq(s, 1, Len(s) - 1)) ELSE s

strip(s) == RStrip(LStrip(s))

LowerChar(c) == CASE c = "A" -> "a" [] c = "B" -> "b" [] OTHER -> c

casefold(s) == [i \in 1..Len(s) |-> LowerChar(s[i])]

\* `if s`: None and the empty string are falsy
Truthy(o) == o # None /\ Val(o) # <<>>

norm_name(o) == IF Truthy(o) THEN Some(casefold(strip(Val(o)))) ELSE None

\* x.text.strip() if (x is not None and x.text) else None
get(o) == IF Truthy(o) THEN Some(strip(Val(o))) ELSE None

\* ------------------------------------------------------------------ floats
Num(n) == [k |-> "num", v |-> n]
NaN    == [k |-> "nan", v |-> 0]
Junk   == [k |-> "junk", v |-> 0]     \* a text float() rejects
Below(n) == [k |-> "below", v |-> n]  \* the largest binary64 below the integer n
                                      \* (float("61.99999999999999") is Below(62))

to_float(txt) ==
    IF txt = None THEN None
    ELSE IF Val(txt).k = "junk" THEN None
    ELSE txt

\* ------------------------------------------------------------------- units
SPEED_UNIT_FALLBACK == "kmh"

\* unit.strip().lower() on the unit tags of the model
UnitLower(u) ==
    CASE u = "KPH"     -> "kph"
      [] u = " Knots " -> "knots"
      [] OTHER         -> u

normalize_unit(unit) ==
    IF unit = None \/ Val(unit) = "" THEN "kmh"
    ELSE LET u == UnitLower(Val(unit)) IN
         IF u \in {"kmh", "kph", "km/h"} THEN "kmh"
         ELSE IF u \in {"mph", "mi/h"} THEN "mph"
         ELSE IF u \in {"knots", "knot", "kt", "kts"} THEN "knots"
         ELSE IF u \in {"m/s", "mps", "ms"} THEN "mps"
         ELSE "kmh"

\* Speeds are exact rationals [n, d] of integers (the factors in lowest
\* terms, to stay within 32 bits); on the speeds of the model the floats of
\* the code give the same floors.  v is an integer.
any_to_mps(v, unit) ==
    LET u == normalize_unit(Some(unit)) IN
    CASE u = "kmh"   -> [n |-> v * 10, d |-> 36]            \* v / 3.6
      [] u = "mph"   -> [n |-> v * 1397, d |-> 3125]        \* v * 0.44704
      [] u = "knots" -> [n |-> v * 128611, d |-> 250000]    \* v * 0.514444
      [] u = "mps"   -> [n |-> v, d |-> 1]
      [] OTHER       -> [n |-> v * 10, d |-> 36]

mps_to_kmh(m) == [n |-> m.n * 18, d |-> m.d * 5]            \* m * 3.6

\* math.floor(knots_val * 10), knots_val = m * 1.943844: the floor of
\* m.n * 485961 / (25000 * m.d), which is the floor of T / m.d for
\* T = floor(m.n * 485961 / 25000); T is computed from m.n = q * 25000 + r
\* and 485961 = 19 * 25000 + 10961, so that no product leaves 32 bits
mps_to_knots10_floor(m) ==
    LET q == m.n \div 25000
        r == m.n % 25000
        T == q * 485961 + 19 * r + (r * 10961) \div 25000
    IN  T \div m.d

floor(q) == q.n \div q.d

\* The km/h round trip math.floor((v / 3.6) * 3.6) in binary64, v < 256:
\* the integers v it takes to v - 1 ...
ShortKmh == {61, 121, 122, 233, 235, 242, 244, 251, 253}
\* ... and the integers n for which it takes the largest float below n to n
RoundKmh == {31, 62, 123, 124, 237, 239, 246, 248, 255}

\* math.floor(mps_to_kmh(any_to_mps(x, "kmh"))) for the float x
floor_kmh_of_kmh(x) ==
    IF x.k = "below"
    THEN IF x.v \in RoundKmh THEN x.v ELSE x.v - 1
    ELSE IF x.v \in ShortKmh THEN x.v - 1 ELSE x.v


\* ------------------------------------------------------------ configuration
ADMIN_TOKEN == "secret123"

Loop    == 0                    \* the event loop thread (receive_datagate)
Workers == {1, 2}               \* threadpool workers (sync handlers)
Free    == -1                   \* _lock not held
Reader  == 3                    \* the threadpool worker of a weather query

\* ------------------------------------------------------- inputs of the model
\* text of <AssetDescription>
EvNames == {None, Some(<<" ">>), Some(<<"A">>), Some(<<" ", "a", " ">>), Some(<<"b">>)}

\* texts of <GPS/Latitude>, <GPS/Longitude> (tenths of a degree)
EvPositions ==
    { [lat |-> Some(Num(-62)), lon |-> Some(Num(1068))],
      [lat |-> None,           lon |-> Some(Num(1068))],
      [lat |-> Some(Num(-62)), lon |-> Some(Junk)] }

\* texts of <RXTime>, <GMTTime>: ISO timestamps, numbered in time order
EvTimes ==
    { [rx |-> None,    gmt |-> None],
      [rx |-> Some(1), gmt |-> None],
      [rx |-> Some(2), gmt |-> Some(1)],
      [rx |-> None,    gmt |-> Some(2)] }

\* <GPS/Valid>, <Telemetry/Speed units=..>, <Telemetry/Heading>
EvTelemetry ==
    { [valid |-> Some("True"),  speed |-> Some(Num(36)), units |-> Some("KPH"),
       heading |-> Some(Num(370))],
      [valid |-> None,          speed |-> Some(Num(10)), units |-> Some(" Knots "),
       heading |-> None],
      [valid |-> Some("false"), speed |-> Some(Junk),    units |-> None,
       heading |-> Some(NaN)] }

\* the record the others are variations of
EvBase ==
    [AssetDescription |-> Some(<<"A">>), RXTime |-> Some(1), GMTTime |-> None,
     Valid |-> Some("True"), Latitude |-> Some(Num(-62)), Longitude |-> Some(Num(1068)),
     Speed |-> Some(Num(36)), units |-> Some("KPH"), Heading |-> Some(Num(370))]

\* a record without a latitude whose heading is NaN
EvNoFixNaN ==
    [EvBase EXCEPT !.Latitude = None, !.Valid = Some("false"), !.Speed = Some(Junk),
                   !.units = None, !.Heading = Some(NaN)]

\* the AssetEvent records of the model: EvBase with its name, its position,
\* its times or its telemetry replaced, and EvNoFixNaN
Events ==
         { [EvBase EXCEPT !.AssetDescription = nm] : nm \in EvNames }
    \cup { [EvBase EXCEPT !.Latitude = p.lat, !.Longitude = p.lon] : p \in EvPositions }
    \cup { [EvBase EXCEPT !.RXTime = t.rx, !.GMTTime = t.gmt] : t \in EvTimes }
    \cup { [EvBase EXCEPT !.Valid = tl.valid, !.Speed = tl.speed, !.units = tl.units,
                          !.Heading = tl.heading] : tl \in EvTelemetry }
    \cup { EvNoFixNaN }

\* EvBase with every integer heading of the range
HeadingEvents == { [EvBase EXCEPT !.Heading = Some(Num(h))] : h \in -MaxHeading..MaxHeading }

\* units attributes of <Speed>: the four units, none, and one the code does not know
SpeedTags == {Some("KPH"), Some("mph"), Some(" Knots "), Some("m/s"), None, Some("furlong")}

\* EvBase with every integer speed of the range under every tag, and with
\* the float just below every such integer in km/h
SpeedEvents ==
         { [EvBase EXCEPT !.Speed = Some(Num(v)), !.units = u] : v \in 0..MaxSpeed, u \in SpeedTags }
    \cup { [EvBase EXCEPT !.Speed = Some(Below(n)), !.units = u] :
             n \in 1..MaxSpeed, u \in {Some("KPH"), None} }

\* POST /mappings bodies and X-Admin-Token headers
AddBodies ==
    { [name |-> <<"A">>,      imei |-> <<" ", "2">>],
      [name |-> <<"a", " ">>, imei |-> <<"1">>],
      [name |-> <<"b">>,      imei |-> <<"1">>] }
Tokens   == {None, Some(ADMIN_TOKEN), Some("wrong")}
AddRequests ==
    { [token |-> tok, name |-> b.name, imei |-> b.imei] : tok \in Tokens, b \in AddBodies }

\* the {asset_name} path parameter of GET /asset/{asset_name}/weather
QueryNames == { <<"A">>, <<"a">>, <<" ", "a", " ">>, <<"b">>, <<"B", " ">>, <<" ">> }

\* outcomes of requests.get on OpenWeather: a final status, or an exception
GetOutcomes == {"200", "401", "timeout"}

\* outcomes of requests.post: a final status, or an exception
PostOutcomes == {"200", "500", "timeout"}

\* ------------------------------------------------- per-event derived values
Or(a, b) == IF a # None THEN a ELSE b

LowerWord(w) == CASE w = "True" -> "true" [] OTHER -> w

name_of(ev)   == get(ev.AssetDescription)
rx_time(ev)   == ev.RXTime
gmt_time(ev)  == ev.GMTTime
gps_valid(ev) == ev.Valid # None /\ LowerWord(Val(ev.Valid)) = "true"
lat_of(ev)    == to_float(ev.Latitude)
lon_of(ev)    == to_float(ev.Longitude)
sp_raw(ev)    == to_float(ev.Speed)
sp_unit_in(ev) == normalize_unit(Or(ev.units, Some(SPEED_UNIT_FALLBACK)))
heading_of(ev) == to_float(ev.Heading)

v_mps(ev) == IF sp_raw(ev) # None THEN Some(any_to_mps(Val(sp_raw(ev)).v, sp_unit_in(ev))) ELSE None

\* in the other units the binary64 product has the floor of the exact one on
\* the speeds of the model (a float below an integer comes in km/h only)
kmh_int_floor(ev) ==
    IF v_mps(ev) = None THEN None
    ELSE IF sp_unit_in(ev) = "kmh" THEN Some(floor_kmh_of_kmh(Val(sp_raw(ev))))
    ELSE Some(floor(mps_to_kmh(Val(v_mps(ev)))))

knots_1dp_floor(ev) ==
    IF v_mps(ev) # None THEN Some(mps_to_knots10_floor(Val(v_mps(ev)))) ELSE None

\* int(round(heading)) raises on NaN
HeadingRaises(ev) == heading_of(ev) # None /\ Val(heading_of(ev)).k = "nan"

\* a remainder that keeps the sign of the heading
heading_deg_truncating(ev) ==
    IF heading_of(ev) # None
    THEN LET v == Val(heading_of(ev)).v IN Some(IF v < 0 THEN -((-v) % 360) ELSE v % 360)
    ELSE None

\* int(round(heading)) % 360 if heading is not None else None
heading_deg(ev) ==
    IF heading_of(ev) # None THEN Some(Val(heading_of(ev)).v % 360) ELSE None

\* the name as it came, trimmed only
key_norm_as_typed(ev) == Val(name_of(ev))

\* key_norm = norm_name(name) or name.strip().casefold()
key_norm(ev) == Val(norm_name(name_of(ev)))

HasFix(ev) == lat_of(ev) # None /\ lon_of(ev) # None

\* RAW_BY_ASSET_DIR / (key_norm.replace(" ", "_") + ".json")
SnapPath(key) == [i \in 1..Len(key) |-> IF key[i] = " " THEN "_" ELSE key[i]]

\* an entry stamped with the time of ingest instead of the record's own time
CacheEntry_stamped(ev, t, snapOk) ==
    [ asset_name |-> Val(name_of(ev)),
      lat |-> Val(lat_of(ev)),
      lon |-> Val(lon_of(ev)),
      rx_time |-> t,
      gps_valid |-> gps_valid(ev),
      speed_kmh |-> kmh_int_floor(ev),
      speed_knots |-> knots_1dp_floor(ev),
      heading_calculation |-> heading_deg(ev),
      raw_snapshot_path |-> IF snapOk THEN Some(SnapPath(key_norm(ev))) ELSE None ]

\* the dict literal assigned to LAST_POS[key_norm]
CacheEntry(ev, t, snapOk) ==
    [ asset_name |-> Val(name_of(ev)),
      lat |-> Val(lat_of(ev)),
      lon |-> Val(lon_of(ev)),
      rx_time |-> Val(Or(rx_time(ev), Or(gmt_time(ev), Some(t)))),
      gps_valid |-> gps_valid(ev),
      speed_kmh |-> kmh_int_floor(ev),
      speed_knots |-> knots_1dp_floor(ev),
      heading_calculation |-> heading_deg(ev),
      raw_snapshot_path |-> IF snapOk THEN Some(SnapPath(key_norm(ev))) ELSE None ]

\* an update that keeps the old value of a field the new entry leaves absent
Upsert_merging(cache, key, entry) ==
    [k \in (DOMAIN cache) \cup {key} |->
        IF k # key THEN cache[k]
        ELSE IF key \notin DOMAIN cache THEN entry
        ELSE [entry EXCEPT
                !.speed_kmh = Or(entry.speed_kmh, cache[key].speed_kmh),
                !.speed_knots = Or(entry.speed_knots, cache[key].speed_knots),
                !.heading_calculation = Or(entry.heading_calculation, cache[key].heading_calculation)]]

\* LAST_POS[key] = entry
Upsert(cache, key, entry) ==
    [k \in (DOMAIN cache) \cup {key} |-> IF k = key THEN entry ELSE cache[k]]

\* ------------------------------------------------------ the device directory
\* NAME_TO_IMEI is a dict: insertion-ordered, one value per (exact) key.
DictHas(d, name) == \E i \in 1..Len(d) : d[i].name = name

\* NAME_TO_IMEI[m.name] = m.imei
DictSet(d, name, imei) ==
    IF DictHas(d, name)
    THEN [i \in 1..Len(d) |-> IF d[i].name = name THEN [name |-> name, imei |-> imei] ELSE d[i]]
    ELSE Append(d, [name |-> name, imei |-> imei])

Matches(d, key) == {i \in 1..Len(d) : norm_name(Some(d[i].name)) = Some(key)}

FirstMatch(d, key) == CHOOSE i \in Matches(d, key) : \A j \in Matches(d, key) : i <= j

\* the for loop over NAME_TO_IMEI.items(): the first display name whose
\* normal form is the key gives val.strip()
ResolveDevice(d, key) ==
    IF Matches(d, key) = {} THEN None ELSE Some(strip(d[FirstMatch(d, key)].imei))

\* a check that lets a request without the header through
require_admin_lenient(token) == token = None \/ token = Some(ADMIN_TOKEN)

\* if x_admin_token != ADMIN_TOKEN: raise HTTPException(403)
require_admin(token) == token = Some(ADMIN_TOKEN)

\* -------------------------------------------------------------- NGP delivery
\* a delivery that calls a second time when the first call fails
post_ngp_retrying(outcome) == [ok |-> outcome = "200", calls |-> IF outcome = "200" THEN 1 ELSE 2]

\* post_ngp: one requests.post call; ok iff it raised nothing and
\* raise_for_status() passed
post_ngp(outcome) == [ok |-> outcome = "200", calls |-> 1]

Payload(ev, imei, t) ==
    [ device_id |-> imei,
      message_time |-> Val(Or(rx_time(ev), Some(t))),
      gnss_time |-> Or(gmt_time(ev), rx_time(ev)),
      fix_type |-> IF gps_valid(ev) THEN "HAS_FIX" ELSE "NO_FIX",
      latitude |-> Val(lat_of(ev)),
      longitude |-> Val(lon_of(ev)),
      speed |-> kmh_int_floor(ev),
      heading |-> heading_deg(ev) ]

\* ------------------------------------------------------------------ responses
Resp(status, body, n) == [status |-> status, body |-> body, n |-> n]
BadXml    == Resp(200, "BAD XML", 0)
Ack(n)    == Resp(200, "OK", n)
Error500  == Resp(500, "Internal Server Error", 0)
Forbidden == Resp(403, "Invalid X-Admin-Token", 0)
Created   == Resp(201, "ok", 0)
NotFound  == Resp(404, "no last position for asset", 0)
BadGateway == Resp(502, "OpenWeather failed", 0)
Weather   == Resp(200, "weather", 0)

\* ---------------------------------------------------------------- documents
Doc(st, doc) == [st |-> st, doc |-> doc]


\* a parser that recovers from malformed input
ParseXml_recovering(body) == Some(body.n)

\* ET.fromstring(body): the number of AssetEvent records of a well-formed
\* document, None for a ParseError
ParseXml(body) == IF body.wf THEN Some(body.n) ELSE None

\* --------------------------------------------------------------------- state
VARIABLES
    NAME_TO_IMEI,     \* the device directory: a sequence of [name, imei]
    LAST_POS,         \* the last-position cache: key -> entry
    MAPPINGS_FILE,    \* data/name_to_imei.json
    LAST_POS_FILE,    \* data/last_pos.json
    lock,             \* holder of _lock, or Free
    now,              \* the last value the wall clock returned
    ing,              \* receive_datagate on the event loop
    wk,               \* add_mapping on each threadpool worker
    out,              \* the last response sent since the last ingest request arrived: [by, resp]
    posts,            \* requests.post calls made for the current ingest request
    faults,           \* disk operations that failed so far
    nIngest,          \* ingest requests received so far
    nAdds,            \* POST /mappings requests received so far
    qr                \* asset_last_weather on its threadpool worker

vars == <<NAME_TO_IMEI, LAST_POS, MAPPINGS_FILE, LAST_POS_FILE, lock, now,
          ing, wk, out, posts, faults, nIngest, nAdds, qr>>

IngIdle ==
    [ pc |-> "idle", body |-> [wf |-> TRUE, n |-> 0], left |-> 0, cur |-> None,
      sent |-> 0, acked |-> 0, failed |-> FALSE, calls |-> 0, it |-> 0,
      payload |-> None ]

WkIdle == [pc |-> "idle", token |-> None, name |-> <<>>, imei |-> <<>>, it |-> 0]

\* n: weather queries received so far; calls: calls to OpenWeather made for
\* the last of them
QrIdle == [pc |-> "idle", name |-> <<>>, rec |-> None, calls |-> 0, n |-> 0]

Sent(p, r) == [by |-> p, resp |-> Some(r)]

\* the directory documents a deployment may start from
InitDirs == { <<>>, <<[name |-> <<"A">>, imei |-> <<"1">>]>> }

\* entries last_pos.json may hold from an earlier run of the service
Persisted(t) ==
    [ asset_name |-> <<"A">>, lat |-> Num(-62), lon |-> Num(1068), rx_time |-> t,
      gps_valid |-> TRUE, speed_kmh |-> Some(36), speed_knots |-> Some(194),
      heading_calculation |-> Some(10), raw_snapshot_path |-> Some(<<"a">>) ]

\* the cache documents a deployment may start from
InitCaches == { <<>>, [k \in {<<"a">>} |-> Persisted(1)], [k \in {<<"a">>} |-> Persisted(2)] }

\* load_mappings() at import, _load_last_pos() at startup
Init ==
    /\ NAME_TO_IMEI \in InitDirs
    /\ MAPPINGS_FILE = Doc("ok", NAME_TO_IMEI)
    /\ LAST_POS \in InitCaches
    /\ LAST_POS_FILE = IF LAST_POS = <<>> THEN Doc("missing", <<>>) ELSE Doc("ok", LAST_POS)
    /\ lock = Free
    /\ now = 3
    /\ ing = IngIdle
    /\ wk = [w \in Workers |-> WkIdle]
    /\ out = [by |-> Loop, resp |-> None]
    /\ posts = 0
    /\ faults = 0
    /\ nIngest = 0
    /\ nAdds = 0
    /\ qr = QrIdle

stores == <<NAME_TO_IMEI, LAST_POS, MAPPINGS_FILE, LAST_POS_FILE>>

\* --------------------------------------------------------- receive_datagate
Receive(maxRecords) ==
    /\ ing.pc = "idle"
    /\ nIngest < MaxIngest
    /\ \E wf \in BOOLEAN, n \in 0..maxRecords :
          ing' = [IngIdle EXCEPT !.pc = "parse", !.body = [wf |-> wf, n |-> n]]
    /\ nIngest' = nIngest + 1
    /\ posts' = 0
    /\ out' = [by |-> Loop, resp |-> None]
    /\ UNCHANGED <<stores, lock, now, wk, faults, nAdds, qr>>

ParseError ==
    /\ ing.pc = "parse"
    /\ ParseXml(ing.body) = None
    /\ ing' = IngIdle
    /\ out' = Sent(Loop, BadXml)
    /\ UNCHANGED <<stores, lock, now, wk, posts, faults, nIngest, nAdds, qr>>

ParseOk ==
    /\ ing.pc = "parse"
    /\ ParseXml(ing.body) # None
    /\ ing' = [ing EXCEPT !.pc = "event", !.left = Val(ParseXml(ing.body)), !.sent = 0]
    /\ UNCHANGED <<stores, lock, now, wk, out, posts, faults, nIngest, nAdds, qr>>

\* for ev in events
LoopNext ==
    /\ ing.pc = "event"
    /\ ing.left > 0
    /\ \E ev \in Events : ing' = [ing EXCEPT !.pc = "record", !.cur = Some(ev)]
    /\ UNCHANGED <<stores, lock, now, wk, out, posts, faults, nIngest, nAdds, qr>>

\* return Response(content=f"OK ({sent})")
Summarize ==
    /\ ing.pc = "event"
    /\ ing.left = 0
    /\ ing' = IngIdle
    /\ out' = Sent(Loop, Ack(ing.sent))
    /\ UNCHANGED <<stores, lock, now, wk, posts, faults, nIngest, nAdds, qr>>

\* a `break` in place of the `continue`
Continue_breaking ==
    [ing EXCEPT !.pc = "event", !.left = 0, !.cur = None, !.calls = 0,
                !.it = 0, !.payload = None]

\* `continue`, or the end of the loop body
Continue ==
    [ing EXCEPT !.pc = "event", !.left = ing.left - 1, !.cur = None, !.calls = 0,
                !.it = 0, !.payload = None]

\* if not name: continue
SkipNoName ==
    /\ ing.pc = "record"
    /\ ~Truthy(name_of(Val(ing.cur)))
    /\ ing' = Continue
    /\ UNCHANGED <<stores, lock, now, wk, out, posts, faults, nIngest, nAdds, qr>>

\* int(round(heading)) raises: the request ends with a 500
RaiseHeading ==
    /\ ing.pc = "record"
    /\ Truthy(name_of(Val(ing.cur)))
    /\ HeadingRaises(Val(ing.cur))
    /\ ing' = IngIdle
    /\ out' = Sent(Loop, Error500)
    /\ UNCHANGED <<stores, lock, now, wk, posts, faults, nIngest, nAdds, qr>>

\* now_utc_iso() is read only where its value is kept
ReadClock(needed, t) == IF needed THEN t \in now..MaxNow ELSE t = now

\* the per-asset snapshot is written, then LAST_POS[key_norm] = {...}
CacheUpdate ==
    /\ ing.pc = "record"
    /\ LET ev == Val(ing.cur) IN
       /\ Truthy(name_of(ev))
       /\ ~HeadingRaises(ev)
       /\ HasFix(ev)
       /\ \E snapOk \in BOOLEAN, t \in now..MaxNow :
             /\ ReadClock(rx_time(ev) = None /\ gmt_time(ev) = None, t)
             /\ now' = t
             /\ snapOk \/ faults < MaxFaults
             /\ faults' = IF snapOk THEN faults ELSE faults + 1
             /\ LAST_POS' = Upsert(LAST_POS, key_norm(ev), CacheEntry(ev, t, snapOk))
    /\ ing' = [ing EXCEPT !.pc = "save"]
    /\ UNCHANGED <<NAME_TO_IMEI, MAPPINGS_FILE, LAST_POS_FILE, lock, wk, out, posts, nIngest, nAdds, qr>>

\* lat or lon is None: no cache update; the for loop over
\* NAME_TO_IMEI.items() creates its iterator
NoFix ==
    /\ ing.pc = "record"
    /\ LET ev == Val(ing.cur) IN
       /\ Truthy(name_of(ev))
       /\ ~HeadingRaises(ev)
       /\ ~HasFix(ev)
    /\ ing' = [ing EXCEPT !.pc = "lookup", !.it = Len(NAME_TO_IMEI)]
    /\ UNCHANGED <<stores, lock, now, wk, out, posts, faults, nIngest, nAdds, qr>>

\* a save put off to the end of the batch: the loop goes on without writing
SaveWrite_deferred ==
    /\ ing.pc = "save"
    /\ lock = Free
    /\ ing' = [ing EXCEPT !.pc = "lookup", !.it = Len(NAME_TO_IMEI)]
    /\ UNCHANGED <<NAME_TO_IMEI, LAST_POS, MAPPINGS_FILE, LAST_POS_FILE, lock, now, wk, out, posts, faults, nIngest, nAdds, qr>>

\* _save_last_pos: with _lock: json.dump(LAST_POS, f); then the for loop
\* over NAME_TO_IMEI.items() creates its iterator
SaveWrite ==
    /\ ing.pc = "save"
    /\ lock = Free
    /\ LAST_POS_FILE' = Doc("ok", LAST_POS)
    /\ ing' = [ing EXCEPT !.pc = "lookup", !.it = Len(NAME_TO_IMEI)]
    /\ UNCHANGED <<NAME_TO_IMEI, LAST_POS, MAPPINGS_FILE, lock, now, wk, out, posts, faults, nIngest, nAdds, qr>>

\* open or write fails: logged, the file is untouched or cut short
SaveWriteFail ==
    /\ ing.pc = "save"
    /\ lock = Free
    /\ faults < MaxFaults
    /\ faults' = faults + 1
    /\ LAST_POS_FILE' \in {LAST_POS_FILE, Doc("torn", <<>>)}
    /\ ing' = [ing EXCEPT !.pc = "lookup", !.it = Len(NAME_TO_IMEI)]
    /\ UNCHANGED <<NAME_TO_IMEI, LAST_POS, MAPPINGS_FILE, lock, now, wk, out, posts, nIngest, nAdds, qr>>

\* the dict grew under the iterator: RuntimeError, the request ends with 500
LookupRace ==
    /\ ing.pc = "lookup"
    /\ Len(NAME_TO_IMEI) # ing.it
    /\ ing' = IngIdle
    /\ out' = Sent(Loop, Error500)
    /\ UNCHANGED <<stores, lock, now, wk, posts, faults, nIngest, nAdds, qr>>

imei_of(ev) == ResolveDevice(NAME_TO_IMEI, key_norm(ev))

\* if not imei: continue / if lat is None or lon is None: continue
SkipForward ==
    /\ ing.pc = "lookup"
    /\ Len(NAME_TO_IMEI) = ing.it
    /\ ~Truthy(imei_of(Val(ing.cur))) \/ ~HasFix(Val(ing.cur))
    /\ ing' = Continue
    /\ UNCHANGED <<stores, lock, now, wk, out, posts, faults, nIngest, nAdds, qr>>

\* location = {...}; payload = {...}
BuildPayload ==
    /\ ing.pc = "lookup"
    /\ Len(NAME_TO_IMEI) = ing.it
    /\ LET ev == Val(ing.cur) IN
       /\ Truthy(imei_of(ev))
       /\ HasFix(ev)
       /\ \E t \in now..MaxNow :
             /\ ReadClock(rx_time(ev) = None, t)
             /\ now' = t
             /\ ing' = [ing EXCEPT !.pc = "post",
                                   !.payload = Some(Payload(ev, Val(imei_of(ev)), t))]
    /\ UNCHANGED <<stores, lock, wk, out, posts, faults, nIngest, nAdds, qr>>

Min(a, b) == IF a < b THEN a ELSE b

\* ok, info = post_ngp(payload); if ok: sent += 1
Deliver ==
    /\ ing.pc = "post"
    /\ \E outcome \in PostOutcomes :
          LET r == post_ngp(outcome) IN
          /\ ing' = [Continue EXCEPT !.sent = ing.sent + (IF r.ok THEN 1 ELSE 0),
                                     !.acked = ing.acked + (IF outcome = "200" THEN 1 ELSE 0),
                                     !.failed = ing.failed \/ outcome # "200",
                                     !.calls = Min(ing.calls + r.calls, 2)]
          /\ posts' = posts + r.calls
    /\ UNCHANGED <<stores, lock, now, wk, out, faults, nIngest, nAdds, qr>>

\* -------------------------------------------------------------- add_mapping
\* a request goes to the first idle worker of the pool
AddReceive(w) ==
    /\ wk[w].pc = "idle"
    /\ \A v \in Workers : wk[v].pc = "idle" => w <= v
    /\ nAdds < MaxAdds
    /\ \E rq \in AddRequests :
          wk' = [wk EXCEPT ![w] = [WkIdle EXCEPT !.pc = "auth", !.token = rq.token,
                                                 !.name = rq.name, !.imei = rq.imei]]
    /\ nAdds' = nAdds + 1
    /\ UNCHANGED <<stores, lock, now, ing, out, posts, faults, nIngest, qr>>

\* Depends(require_admin) raises 403
AddDenied(w) ==
    /\ wk[w].pc = "auth"
    /\ ~require_admin(wk[w].token)
    /\ wk' = [wk EXCEPT ![w] = WkIdle]
    /\ out' = Sent(w, Forbidden)
    /\ UNCHANGED <<stores, lock, now, ing, posts, faults, nIngest, nAdds, qr>>

\* NAME_TO_IMEI[m.name] = m.imei
AddSet(w) ==
    /\ wk[w].pc = "auth"
    /\ require_admin(wk[w].token)
    /\ NAME_TO_IMEI' = DictSet(NAME_TO_IMEI, wk[w].name, wk[w].imei)
    /\ wk' = [wk EXCEPT ![w].pc = "lock"]
    /\ UNCHANGED <<LAST_POS, MAPPINGS_FILE, LAST_POS_FILE, lock, now, ing, out, posts, faults, nIngest, nAdds, qr>>

\* with _lock: with open(MAPPINGS_FILE, "w"): the file is truncated and
\* json.dump creates its iterator over the dict
AddOpen(w) ==
    /\ wk[w].pc = "lock"
    /\ lock = Free
    /\ lock' = w
    /\ MAPPINGS_FILE' = Doc("torn", <<>>)
    /\ wk' = [wk EXCEPT ![w].pc = "dump", ![w].it = Len(NAME_TO_IMEI)]
    /\ UNCHANGED <<NAME_TO_IMEI, LAST_POS, LAST_POS_FILE, now, ing, out, posts, faults, nIngest, nAdds, qr>>

\* open() raises: nothing catches it, the lock is released, 500
AddOpenFail(w) ==
    /\ wk[w].pc = "lock"
    /\ lock = Free
    /\ faults < MaxFaults
    /\ faults' = faults + 1
    /\ wk' = [wk EXCEPT ![w] = WkIdle]
    /\ out' = Sent(w, Error500)
    /\ UNCHANGED <<stores, lock, now, ing, posts, nIngest, nAdds, qr>>

\* json.dump(NAME_TO_IMEI, f) completes; return {"ok": True, ...}
AddDump(w) ==
    /\ wk[w].pc = "dump"
    /\ Len(NAME_TO_IMEI) = wk[w].it
    /\ MAPPINGS_FILE' = Doc("ok", NAME_TO_IMEI)
    /\ lock' = Free
    /\ wk' = [wk EXCEPT ![w] = WkIdle]
    /\ out' = Sent(w, Created)
    /\ UNCHANGED <<NAME_TO_IMEI, LAST_POS, LAST_POS_FILE, now, ing, posts, faults, nIngest, nAdds, qr>>

\* the write raises: the file stays cut short, the lock is released, 500
AddDumpFail(w) ==
    /\ wk[w].pc = "dump"
    /\ Len(NAME_TO_IMEI) = wk[w].it
    /\ faults < MaxFaults
    /\ faults' = faults + 1
    /\ lock' = Free
    /\ wk' = [wk EXCEPT ![w] = WkIdle]
    /\ out' = Sent(w, Error500)
    /\ UNCHANGED <<stores, now, ing, posts, nIngest, nAdds, qr>>

\* the dict grew under json.dump's iterator: RuntimeError, the file stays
\* cut short, the lock is released, 500
AddDumpRace(w) ==
    /\ wk[w].pc = "dump"
    /\ Len(NAME_TO_IMEI) # wk[w].it
    /\ lock' = Free
    /\ wk' = [wk EXCEPT ![w] = WkIdle]
    /\ out' = Sent(w, Error500)
    /\ UNCHANGED <<stores, now, ing, posts, faults, nIngest, nAdds, qr>>

\* ------------------------------------------------------- asset_last_weather
\* a lookup under the path parameter as it was typed
query_key_exact(name) == name

\* key = norm_name(asset_name)
query_key(name) == Val(norm_name(Some(name)))

\* asset_meta and the coordinates handed to build_weather_output
asset_meta(rec) ==
    [ asset_name |-> rec.asset_name,
      timestamp |-> rec.rx_time,
      heading_calculation |-> rec.heading_calculation,
      speed_calculation |-> IF rec.speed_knots # None THEN Val(rec.speed_knots) ELSE 0,
      latitude |-> rec.lat,
      longitude |-> rec.lon ]

\* rec = LAST_POS.get(key); if not rec: raise HTTPException(404)
QueryMiss ==
    /\ qr.pc = "idle"
    /\ qr.n < MaxQueries
    /\ \E name \in QueryNames :
          /\ query_key(name) \notin DOMAIN LAST_POS
          /\ qr' = [QrIdle EXCEPT !.name = name, !.n = qr.n + 1]
    /\ out' = Sent(Reader, NotFound)
    /\ UNCHANGED <<stores, lock, now, ing, wk, posts, faults, nIngest, nAdds>>

\* rec is an entry: lat, lon and asset_meta are taken from it
QueryHit ==
    /\ qr.pc = "idle"
    /\ qr.n < MaxQueries
    /\ \E name \in QueryNames :
          /\ query_key(name) \in DOMAIN LAST_POS
          /\ qr' = [QrIdle EXCEPT !.pc = "fetch", !.name = name, !.n = qr.n + 1,
                                  !.rec = Some(asset_meta(LAST_POS[query_key(name)]))]
    /\ UNCHANGED <<stores, lock, now, ing, wk, out, posts, faults, nIngest, nAdds>>

\* wx = fetch_openweather(lat, lon): one requests.get; 502 unless it
\* returned a 2xx; return build_weather_output(...)
QueryFetch ==
    /\ qr.pc = "fetch"
    /\ \E outcome \in GetOutcomes :
          out' = Sent(Reader, IF outcome = "200" THEN Weather ELSE BadGateway)
    /\ qr' = [qr EXCEPT !.pc = "idle", !.calls = 1]
    /\ UNCHANGED <<stores, lock, now, ing, wk, posts, faults, nIngest, nAdds>>

\* ---------------------------------------------------------------------- spec
IngestSteps ==
    \/ ParseError \/ ParseOk \/ LoopNext \/ Summarize
    \/ SkipNoName \/ RaiseHeading \/ CacheUpdate \/ NoFix
    \/ SaveWrite \/ SaveWriteFail
    \/ SkipForward \/ BuildPayload \/ Deliver

\* ingest requests alone: the directory is the one the service started with
NextIngest == Receive(MaxBatch) \/ IngestSteps

\* management requests alone, on concurrent workers
NextAdmin ==
    \E w \in Workers :
       \/ AddReceive(w) \/ AddDenied(w) \/ AddSet(w)
       \/ AddOpen(w) \/ AddOpenFail(w) \/ AddDump(w) \/ AddDumpFail(w) \/ AddDumpRace(w)

\* ingest and management requests together
Next == Receive(RaceBatch) \/ IngestSteps \/ LookupRace \/ NextAdmin

Spec == Init /\ [][Next]_vars

SpecIngest == Init /\ [][NextIngest]_vars

SpecAdmin == Init /\ [][NextAdmin]_vars

\* weather queries alone, on the cache the service started with
NextQuery == QueryMiss \/ QueryHit \/ QueryFetch

SpecQuery == Init /\ [][NextQuery]_vars

\* the ingest of one record of the set evs: the request has parsed its body
\* and the loop is at its only record
InitRecord(evs) ==
    /\ NAME_TO_IMEI \in InitDirs
    /\ MAPPINGS_FILE = Doc("ok", NAME_TO_IMEI)
    /\ LAST_POS \in InitCaches
    /\ LAST_POS_FILE = IF LAST_POS = <<>> THEN Doc("missing", <<>>) ELSE Doc("ok", LAST_POS)
    /\ lock = Free
    /\ now = 3
    /\ \E ev \in evs :
          ing = [IngIdle EXCEPT !.pc = "record", !.body = [wf |-> TRUE, n |-> 1],
                                !.left = 1, !.cur = Some(ev)]
    /\ wk = [w \in Workers |-> WkIdle]
    /\ out = [by |-> Loop, resp |-> None]
    /\ posts = 0
    /\ faults = 0
    /\ nIngest = 1
    /\ nAdds = 0
    /\ qr = QrIdle

\* the steps of a record that has a name, both coordinates and a finite heading
NextRecord ==
    \/ CacheUpdate \/ SaveWrite \/ SaveWriteFail
    \/ SkipForward \/ BuildPayload \/ Deliver \/ Summarize

InitHeading == InitRecord(HeadingEvents)

SpecHeading == InitHeading /\ [][NextRecord]_vars

InitSpeed == InitRecord(SpeedEvents)

SpecSpeed == InitSpeed /\ [][NextRecord]_vars

\* ===================================================================== claims

\* C1: an ingest request whose body is not parseable XML is answered with the
\* fixed rejection text and processes no event: the cache, the cache file,
\* the directory, the directory file and the deliveries made are unchanged.
C1_BadXmlRejected ==
    [][ (ing.pc = "parse" /\ ~ing.body.wf /\ ing' # ing)
        => /\ out' = Sent(Loop, BadXml)
           /\ ing'.pc = "idle"
           /\ UNCHANGED <<LAST_POS, LAST_POS_FILE, NAME_TO_IMEI, MAPPINGS_FILE, posts>> ]_vars

\* a body with records in it was rejected while the cache and the directory held entries
C1_Witness ==
    /\ out = Sent(Loop, BadXml)
    /\ nIngest = 1
    /\ LAST_POS # <<>>
    /\ LAST_POS_FILE = Doc("ok", LAST_POS)
    /\ NAME_TO_IMEI # <<>>

\* the record being handled and the key it is cached under
Cur == Val(ing.cur)
CurKey == casefold(strip(Val(Cur.AssetDescription)))

\* every field of entry e is the one the record ev gives (t: the ingest time)
EntryIsFix(e, ev, t) ==
    /\ e.asset_name = strip(Val(ev.AssetDescription))
    /\ e.lat = Val(ev.Latitude)
    /\ e.lon = Val(ev.Longitude)
    /\ e.rx_time = (IF ev.RXTime # None THEN Val(ev.RXTime)
                    ELSE IF ev.GMTTime # None THEN Val(ev.GMTTime) ELSE t)
    /\ e.gps_valid = gps_valid(ev)
    /\ e.speed_kmh = kmh_int_floor(ev)
    /\ e.speed_knots = knots_1dp_floor(ev)
    /\ e.heading_calculation = heading_deg(ev)
    /\ e.raw_snapshot_path \in {None, Some(SnapPath(casefold(strip(Val(ev.AssetDescription)))))}

\* the record has an asset name and both coordinates
NamedFix(ev) ==
    /\ Truthy(ev.AssetDescription) /\ strip(Val(ev.AssetDescription)) # <<>>
    /\ ev.Latitude # None /\ Val(ev.Latitude).k # "junk"
    /\ ev.Longitude # None /\ Val(ev.Longitude).k # "junk"

\* no directory entry has a name that normalises to key
Unmapped(key) ==
    \A i \in 1..Len(NAME_TO_IMEI) : casefold(strip(NAME_TO_IMEI[i].name)) # key

\* C2: every ingested record that has an asset name, a latitude and a
\* longitude updates the cache entry of its normalised key to that record's
\* fix, whether or not the directory maps the asset; with no mapping no
\* delivery is attempted and the forwarded count does not grow.
C2_CachedWhateverTheMapping ==
    [][ /\ (ing.pc = "record" /\ NamedFix(Cur) /\ ing' # ing)
           => /\ CurKey \in DOMAIN LAST_POS'
              /\ EntryIsFix(LAST_POS'[CurKey], Cur, now')
              /\ ing'.pc = "save"
        /\ (ing.pc = "lookup" /\ Unmapped(CurKey) /\ ing' # ing)
           => /\ posts' = posts
              /\ ing'.sent = ing.sent
              /\ ing'.pc = "event" ]_vars

\* the record a skip step drops: no name, or no coordinates, or no mapping
SkipsAtName == ing.pc = "record" /\ ~Truthy(get(Cur.AssetDescription))
SkipsAtLookup == ing.pc = "lookup" /\ (~NamedFix(Cur) \/ Unmapped(CurKey))

C4_LastWriteWins ==
    [][ (ing.pc = "record" /\ ing'.pc = "save")
        => /\ DOMAIN LAST_POS' = DOMAIN LAST_POS \cup {CurKey}
           /\ EntryIsFix(LAST_POS'[CurKey], Cur, now')
           /\ \A k \in DOMAIN LAST_POS' \ {CurKey} : LAST_POS'[k] = LAST_POS[k]
           /\ \A k \in DOMAIN LAST_POS' :
                 casefold(strip(LAST_POS'[k].asset_name)) = CurKey => k = CurKey ]_vars

\* a fix with an older timestamp has replaced the newer one the key held
\* (the persisted document still shows the newer one)
C4_Witness ==
    /\ ing.pc = "save"
    /\ LAST_POS_FILE.st = "ok"
    /\ <<"a">> \in DOMAIN LAST_POS_FILE.doc
    /\ <<"a">> \in DOMAIN LAST_POS
    /\ LAST_POS_FILE.doc[<<"a">>].rx_time > LAST_POS[<<"a">>].rx_time
    /\ EntryIsFix(LAST_POS[<<"a">>], Cur, now)

C6_SingleAttempt ==
    [][ (ing.pc = "post" /\ ing' # ing)
        => /\ posts' = posts + 1
           /\ ing'.pc = "event"
           /\ ing'.left = ing.left - 1
           /\ posts' <= ing.body.n - ing'.left
           /\ UNCHANGED <<LAST_POS, LAST_POS_FILE>> ]_vars

\* after a failed call, the next record of the batch has been cached and has
\* reached its own delivery
C6_Witness ==
    /\ ing.pc = "post"
    /\ ing.failed
    /\ posts = 1
    /\ ing.sent = 0
    /\ CurKey \in DOMAIN LAST_POS
    /\ EntryIsFix(LAST_POS[CurKey], Cur, now)

\* a request is between its in-memory mutation and the end of its durable write
InWindow(w) == wk[w].pc \in {"lock", "dump"}

\* C7: every update runs its in-memory mutation and its durable write as one
\* critical section: no request mutates or iterates the directory while
\* another is between its mutation and the end of its write, and the
\* persisted document is whole whenever no write is under way or has failed.
C7_OneCriticalSection ==
    /\ \A w, v \in Workers : (w # v /\ InWindow(w)) => ~InWindow(v)
    /\ \A w \in Workers : InWindow(w) => ing.pc # "lookup"
    /\ (faults = 0 /\ \A w \in Workers : wk[w].pc # "dump") => MAPPINGS_FILE.st = "ok"

\* C8: adding a mapping for a name whose normal form already has a mapping
\* is rejected and leaves the directory unchanged.
C8_DuplicateRejected ==
    [][ \A w \in Workers :
          ( /\ wk[w].pc = "auth"
            /\ wk[w].token = Some(ADMIN_TOKEN)
            /\ ~Unmapped(casefold(strip(wk[w].name)))
            /\ wk'[w] # wk[w] )
          => /\ NAME_TO_IMEI' = NAME_TO_IMEI
             /\ wk'[w].pc = "idle"
             /\ out' # Sent(w, Created) ]_vars

\* C9: the directory holds at most one mapping per normalised key.
C9_UniquePerKey ==
    \A i, j \in 1..Len(NAME_TO_IMEI) :
       casefold(strip(NAME_TO_IMEI[i].name)) = casefold(strip(NAME_TO_IMEI[j].name)) => i = j

\* C10: an add with a missing or wrong credential is rejected before any
\* mutation: the directory and its persisted document are unchanged.
C10_DeniedBeforeMutation ==
    [][ \A w \in Workers :
          (wk[w].pc = "auth" /\ wk[w].token # Some(ADMIN_TOKEN) /\ wk'[w] # wk[w])
          => /\ NAME_TO_IMEI' = NAME_TO_IMEI
             /\ MAPPINGS_FILE' = MAPPINGS_FILE
             /\ out' = Sent(w, Forbidden)
             /\ wk'[w].pc = "idle" ]_vars

\* an add has been rejected while another add was writing the directory
C10_Witness ==
    \E w, v \in Workers :
       /\ w # v
       /\ out = Sent(w, Forbidden)
       /\ wk[w].pc = "idle"
       /\ wk[v].pc = "dump"
       /\ Len(NAME_TO_IMEI) = 2

\* the key a weather query for the name asks for
AskedKey == casefold(strip(qr'.name))

\* C11: a weather query for a key with no cache entry is answered not-found,
\* makes no call to OpenWeather and leaves the cache and its file unchanged;
\* a query for a key that has an entry, under any case or surrounding
\* whitespace of the name, is never answered not-found.
C11_NotFoundIffNoEntry ==
    [][ /\ (qr'.n = qr.n + 1 /\ AskedKey \notin DOMAIN LAST_POS)
           => /\ out' = Sent(Reader, NotFound)
              /\ qr'.pc = "idle"
              /\ qr'.calls = 0
              /\ UNCHANGED <<LAST_POS, LAST_POS_FILE>>
        /\ (qr'.n = qr.n + 1 /\ AskedKey \in DOMAIN LAST_POS)
           => /\ qr'.pc = "fetch"
              /\ out' = out
              /\ UNCHANGED <<LAST_POS, LAST_POS_FILE>>
        /\ (qr.pc = "fetch" /\ qr' # qr)
           => /\ out' # Sent(Reader, NotFound)
              /\ UNCHANGED <<LAST_POS, LAST_POS_FILE>> ]_vars

\* a query for " a " has found the entry cached under "a" and been answered
\* with the weather, after a query for an asset without an entry was answered
\* not-found
C11_Witness ==
    /\ qr.n = 2
    /\ qr.name = <<" ", "a", " ">>
    /\ qr.calls = 1
    /\ out = Sent(Reader, Weather)
    /\ <<"a">> \in DOMAIN LAST_POS

\* C12: a failed durable write is not fatal to its request: the ingest goes
\* on to the lookup of the same record with the cache updated, the add
\* answers with its success response, and the in-memory store holds the
\* update.
C12_WriteFailureNonFatal ==
    [][ faults' # faults
        => /\ ing.pc = "save"
              => /\ ing'.pc = "lookup"
                 /\ CurKey \in DOMAIN LAST_POS'
                 /\ EntryIsFix(LAST_POS'[CurKey], Cur, now')
                 /\ out' = out
           /\ \A w \in Workers :
                 (wk[w].pc \in {"lock", "dump"} /\ wk'[w] # wk[w])
                 => /\ out' = Sent(w, Created)
                    /\ \E i \in 1..Len(NAME_TO_IMEI') :
                          NAME_TO_IMEI'[i] = [name |-> wk[w].name, imei |-> wk[w].imei] ]_vars

\* C13: every ingest request is answered with a success status: whatever
\* text the numeric fields of a well-formed document carry, no record makes
\* the request end with an error.
C13_AlwaysAcknowledged ==
    (out.by = Loop /\ out.resp # None) => Val(out.resp).status \in 200..299

\* C14: the message timestamp of the outbound payload is the record's
\* receive time if present, else its device GMT time if present, else the
\* ingest time, and it is the timestamp stored as the last-fix time of the
\* cache entry for that record.
C14_MessageTimeRule ==
    [][ (ing.pc = "lookup" /\ ing'.pc = "post")
        => /\ Val(ing'.payload).message_time =
                 (IF Cur.RXTime # None THEN Val(Cur.RXTime)
                  ELSE IF Cur.GMTTime # None THEN Val(Cur.GMTTime) ELSE now')
           /\ Val(ing'.payload).message_time = LAST_POS[CurKey].rx_time ]_vars

\* C15: for a forwarded record without a heading, the heading of the cache
\* entry is absent (not 0) and the outbound payload carries heading 0.
C15_HeadingDefaultedInPayload ==
    [][ (ing.pc = "lookup" /\ ing'.pc = "post" /\ Cur.Heading = None)
        => /\ LAST_POS[CurKey].heading_calculation = None
           /\ Val(ing'.payload).heading = Some(0) ]_vars

\* the record has no usable latitude or no usable longitude
LacksFix(ev) ==
    \/ ev.Latitude = None \/ Val(ev.Latitude).k = "junk"
    \/ ev.Longitude = None \/ Val(ev.Longitude).k = "junk"

\* C16: a record that lacks latitude or longitude has no effect on the
\* cache or its file and causes no delivery attempt, mapped or not, and the
\* batch goes on to its next record.
C16_NoFixNoEffect ==
    [][ (ing.pc \in {"record", "lookup"} /\ LacksFix(Cur) /\ ing' # ing)
        => /\ UNCHANGED <<LAST_POS, LAST_POS_FILE, posts>>
           /\ ing'.sent = ing.sent
           /\ ing'.pc \in {"lookup", "event"}
           /\ ing'.pc = "event" => ing'.left = ing.left - 1 ]_vars

\* C17: every cache upsert is followed at once by a write of the whole cache,
\* before the loop goes on: the cache changes only in a step that leads to
\* the save, a save that does not fail leaves the file equal to the cache,
\* and whenever the request is not at a save and no write has failed, the
\* persisted document equals the in-memory cache.
C17_WriteThrough ==
    [][ /\ LAST_POS' # LAST_POS => (ing.pc = "record" /\ ing'.pc = "save")
        /\ (ing.pc = "record" /\ ing'.pc = "save") => LAST_POS_FILE' = LAST_POS_FILE
        /\ (ing.pc = "save" /\ ing' # ing)
           => /\ ing'.pc = "lookup"
              /\ LAST_POS' = LAST_POS
              /\ faults' = faults => LAST_POS_FILE' = Doc("ok", LAST_POS)
        /\ ing.pc \notin {"record", "save"} => UNCHANGED <<LAST_POS, LAST_POS_FILE>>
        /\ (faults = 0 /\ ing.pc # "save") => LAST_POS_FILE.doc = LAST_POS
        /\ (faults' = 0 /\ ing'.pc # "save") => LAST_POS_FILE'.doc = LAST_POS' ]_vars

\* a record has been cached beside another entry and its save is done: the
\* file holds both entries
C17_Witness ==
    /\ ing.pc = "lookup"
    /\ ing.left = 1
    /\ faults = 0
    /\ DOMAIN LAST_POS = {<<"a">>, <<"b">>}
    /\ LAST_POS_FILE = Doc("ok", LAST_POS)
    /\ EntryIsFix(LAST_POS[CurKey], Cur, now)

\* C18: for every integer heading h, negative ones included, the heading
\* stored for the record lies in 0..359, is congruent to h modulo 360 and is
\* the one stored for h + 360; a heading of 370 is stored as 10.
C18_HeadingNormalised ==
    ing.pc = "save"
    => LET h == Val(Cur.Heading).v
           e == LAST_POS[CurKey].heading_calculation
       IN  /\ e # None
           /\ Val(e) \in 0..359
           /\ (h - Val(e)) % 360 = 0
           /\ heading_deg([Cur EXCEPT !.Heading = Some(Num(h + 360))]) = e
           /\ h = 370 => Val(e) = 10

\* a record with heading -370 has been cached with heading 350
C18_Witness ==
    /\ ing.pc = "save"
    /\ Val(Cur.Heading).v = -370
    /\ LAST_POS[CurKey].heading_calculation = Some(350)

\* the exact km/h value of one unit of the tag, as a fraction: 1 mph is
\* 1.609344 km/h, 1 knot is 0.514444 * 3.6 km/h, 1 m/s is 3.6 km/h; a
\* missing or unknown tag is km/h
KmhPerUnit(tag) ==
    CASE tag = Some("mph")     -> [n |-> 25146, d |-> 15625]
      [] tag = Some(" Knots ") -> [n |-> 1157499, d |-> 625000]
      [] tag = Some("m/s")     -> [n |-> 18, d |-> 5]
      [] OTHER                 -> [n |-> 1, d |-> 1]

\* the integer S is at most the exact km/h value of the speed of record ev
AtMostExact(S, ev) ==
    LET x == Val(ev.Speed)
        c == KmhPerUnit(ev.units)
    IN  IF x.k = "below" THEN S * c.d < x.v * c.n ELSE S * c.d <= x.v * c.n

\* C19: flooring never overstates: for every speed v >= 0 under every unit
\* tag (a missing or unknown tag counting as km/h), the integer km/h value
\* stored in the cache and the one sent in the payload are at most the exact
\* km/h value of v.
C19_FloorNeverOverstates ==
    /\ ing.pc = "save"
       => /\ LAST_POS[CurKey].speed_kmh # None
          /\ AtMostExact(Val(LAST_POS[CurKey].speed_kmh), Cur)
    /\ ing.pc = "post"
       => /\ Val(ing.payload).speed # None
          /\ AtMostExact(Val(Val(ing.payload).speed), Cur)

\* every entry of cache c is under the normal form of its own asset name and
\* has a latitude and a longitude
WellKeyed(c) ==
    \A k \in DOMAIN c :
       /\ k = casefold(strip(c[k].asset_name))
       /\ c[k].lat # None /\ c[k].lat.k = "num"
       /\ c[k].lon # None /\ c[k].lon.k = "num"

\* C20: in every reachable state every cache entry is stored under the
\* trimmed, case-folded form of its own asset name and has both latitude and
\* longitude; no step removes a cache entry.
C20_KeyedAndKept ==
    [][ /\ WellKeyed(LAST_POS)
        /\ WellKeyed(LAST_POS')
        /\ DOMAIN LAST_POS \subseteq DOMAIN LAST_POS' ]_vars

\* a batch has cached asset "b" and, under key "a", the asset named " a ",
\* beside or over the entry the cache held
C20_Witness ==
    /\ ing.pc = "event"
    /\ ing.left = 0
    /\ DOMAIN LAST_POS = {<<"a">>, <<"b">>}
    /\ LAST_POS[<<"a">>].asset_name = <<"a">>
    /\ LAST_POS[<<"b">>].asset_name = <<"b">>

\* C21: for each record the cache upsert and its write come before that
\* record's delivery attempt, and a delivery, failed or not, leaves the cache
\* and its file as they are: an outbound call is made only for a record whose
\* fix the cache already holds (and, no write having failed, the file too);
\* every record with a name and both coordinates is left with its fix in
\* the cache; and the request ends only when every record of the batch has
\* been handled.
C21_CachedBeforeDelivery ==
    [][ /\ posts' # posts
           => /\ ing.pc = "post"
              /\ CurKey \in DOMAIN LAST_POS
              /\ \E t \in 0..MaxNow : EntryIsFix(LAST_POS[CurKey], Cur, t)
              /\ faults = 0 => LAST_POS_FILE = Doc("ok", LAST_POS)
        /\ (ing.pc = "post" /\ ing' # ing) => UNCHANGED <<LAST_POS, LAST_POS_FILE>>
        /\ (ing.pc \notin {"idle", "parse"} /\ ing'.pc = "idle") => ing.left = 0
        /\ (ing.cur # None /\ ing'.cur # ing.cur /\ NamedFix(Cur))
           => /\ CurKey \in DOMAIN LAST_POS'
              /\ \E t \in 0..MaxNow : EntryIsFix(LAST_POS'[CurKey], Cur, t) ]_vars

====
